---------------------------- MODULE Spec2Model ----------------------------
(***************************************************************************)
(* A model of the console's user-session detail view                      *)
(* (packages/console/src/pages/UserSessionDetails/index.tsx):             *)
(*   - the revoke flow: the action menu, the confirmation modal wiring,   *)
(*     the success callback (close modal, invalidate the session-list     *)
(*     cache entry, navigate back);                                       *)
(*   - formatTimestamp, the seconds/milliseconds disambiguation;          *)
(*   - the `applications` derivation from the authorization record.       *)
(*                                                                         *)
(* RevokeSessionConfirmModal is imported by the view but its source is    *)
(* not part of the fragment: its behaviour (issue the revoke command on   *)
(* confirm, report success through onRevokeCallback, gate a second        *)
(* confirm while a command is in flight) is taken from the written        *)
(* design, sections 4.5 and 5.                                            *)
(***************************************************************************)
EXTENDS Integers, Sequences, FiniteSets, TLC

VARIABLES
    userId,                  \* useParams().userId
    sessionId,               \* useParams().sessionId
    mounted,                 \* the view instance is mounted
    sessionData,             \* useSWR(...).data for the current key
    showRevokeConfirmModal,  \* useState(false)
    inflight,                \* revoke commands issued and not yet settled
    log,                     \* calls made to the backend, the cache and the router
    lastOp,                  \* the handler that ran last
    loginTs,                 \* two raw payload.loginTs values
    signedInAt,              \* their formatTimestamp results
    payload,                 \* a session response body as sent by the backend
    applications             \* the rendered `applications` value

viewVars == <<userId, sessionId, mounted, sessionData, showRevokeConfirmModal,
              inflight, log, lastOp>>
formatVars == <<loginTs, signedInAt>>
appVars == <<payload, applications>>
vars == <<userId, sessionId, mounted, sessionData, showRevokeConfirmModal,
          inflight, log, lastOp, loginTs, signedInAt, payload, applications>>

(***************************************************************************)
(* Bounds of the model.                                                    *)
(***************************************************************************)
\* Revoke commands one view instance issues before the model stops issuing.
MaxRevokes == 2
\* Members of an authorization record in a response body.
MaxAuthLen == 3
\* Half-width of the window of timestamps taken around each sample point.
MaxDelta == 1

(***************************************************************************)
(* Route parameters.  useParams() yields string | undefined; both         *)
(* undefined and the empty string are falsy in the guards of the view.    *)
(***************************************************************************)
Undefined == "<undefined>"
UserIds == {Undefined, "", "u1", "u2"}
SessionIds == {Undefined, "", "s1", "s2"}

Truthy(v) == v # Undefined /\ v # ""

\* `api/users/${userId}/sessions/${sessionId}`, as its path segments.
SessionKey(u, s) == <<"api", "users", u, "sessions", s>>

\* `api/users/${userId}/sessions`, as its path segments.
SessionListKey(u) == <<"api", "users", u, "sessions">>

\* The key handed to useSWR: falsy (no fetch) unless both parameters are set.
SWRKey == IF Truthy(userId) /\ Truthy(sessionId)
          THEN SessionKey(userId, sessionId)
          ELSE <<>>

NoData == [loaded |-> FALSE, uid |-> ""]
SessionOf(s) == [loaded |-> TRUE, uid |-> s]

\* {sessionData && (<> ... <ActionMenu> ... </>)}
MenuRendered == mounted /\ sessionData.loaded

\* The mutant of the render guard: the sessionId check dropped.
ModalRenderedUserOnly == Truthy(userId)

\* {userId && sessionId && (<RevokeSessionConfirmModal ... />)}
ModalRendered == Truthy(userId) /\ Truthy(sessionId)

\* The confirmation control is on screen: rendered, and isOpen.
ModalPresented == mounted /\ ModalRendered /\ showRevokeConfirmModal

(***************************************************************************)
(* The coordinator's states of the written design, read off the view's    *)
(* state.                                                                  *)
(***************************************************************************)
Executing == inflight # <<>>
ConfirmPending == ~Executing /\ ModalPresented
Idle == ~Executing /\ ~showRevokeConfirmModal

(***************************************************************************)
(* Handlers, as the sequence of calls each makes, in source order.         *)
(***************************************************************************)
Call(name, arg) == [call |-> name, arg |-> arg]
SetShow(b) == Call("setShowRevokeConfirmModal", IF b THEN <<"true">> ELSE <<"false">>)
MutateGlobal(key) == Call("mutateGlobal", key)
Navigate == Call("navigate", <<"-1">>)

\* ActionMenuItem onClick
onClick == <<SetShow(TRUE)>>

\* Mutants of onCancel: a cancel that also refreshes the list, or also leaves.
onCancelInvalidates(u) == <<SetShow(FALSE), MutateGlobal(SessionListKey(u))>>
onCancelNavigates(u) == <<SetShow(FALSE), Navigate>>

\* onCancel, in a render whose userId is u
onCancel(u) == <<SetShow(FALSE)>>

\* Mutants of onRevokeCallback: navigation before the invalidation, and the
\* invalidation issued twice.
onRevokeCallbackNavigatesFirst(u) ==
    <<SetShow(FALSE), Navigate, MutateGlobal(SessionListKey(u))>>
onRevokeCallbackTwice(u) ==
    <<SetShow(FALSE), MutateGlobal(SessionListKey(u)),
      MutateGlobal(SessionListKey(u)), Navigate>>

\* onRevokeCallback, in a render whose userId is u
onRevokeCallback(u) ==
    <<SetShow(FALSE), MutateGlobal(SessionListKey(u)), Navigate>>

\* The mutant of the wiring: the callback also runs when the command failed.
ModalPropsUnconditional(event, u) ==
    CASE event = "cancel" -> onCancel(u)
      [] event = "revoked" -> onRevokeCallback(u)
      [] event = "failed" -> onRevokeCallback(u)
      [] OTHER -> <<>>

\* The props the view hands to the modal: what runs in the view on each of the
\* modal's outcomes.  There is no prop for a failed command.
ModalProps(event, u) ==
    CASE event = "cancel" -> onCancel(u)
      [] event = "revoked" -> onRevokeCallback(u)
      [] OTHER -> <<>>

\* A log entry: the call, and the view's state at the moment it was made.
Entry(c, show) ==
    [call |-> c.call, arg |-> c.arg, modalOpen |-> show, mounted |-> mounted]

\* One call of a handler.  A state setter of an unmounted component does
\* nothing; every other call reaches its collaborator.
Step(c, st) ==
    IF c.call = "setShowRevokeConfirmModal"
    THEN [st EXCEPT !.show = IF mounted THEN c.arg = <<"true">> ELSE @]
    ELSE [st EXCEPT !.log = Append(@, Entry(c, st.show))]

\* The calls of a handler, run in order.
RECURSIVE Run(_, _)
Run(calls, st) ==
    IF calls = <<>> THEN st ELSE Run(Tail(calls), Step(Head(calls), st))

Count(name, s) == Cardinality({i \in 1..Len(s) : s[i].call = name})

(***************************************************************************)
(* Actions of the view.                                                    *)
(***************************************************************************)
UnchangedDerived == UNCHANGED <<loginTs, signedInAt, payload, applications>>

\* useSWR resolves the session for the current key.
FetchSession ==
    /\ mounted
    /\ SWRKey # <<>>
    /\ ~sessionData.loaded
    /\ sessionData' = SessionOf(sessionId)
    /\ lastOp' = "fetch"
    /\ UNCHANGED <<userId, sessionId, mounted, showRevokeConfirmModal, inflight, log>>
    /\ UnchangedDerived

\* The route changes under the mounted view: useParams yields new values,
\* useState keeps its value, useSWR has no data yet for the new key.
ParamChange ==
    /\ mounted
    /\ \E u \in UserIds, s \in SessionIds :
        /\ <<u, s>> # <<userId, sessionId>>
        /\ userId' = u
        /\ sessionId' = s
    /\ sessionData' = NoData
    /\ lastOp' = "params"
    /\ UNCHANGED <<mounted, showRevokeConfirmModal, inflight, log>>
    /\ UnchangedDerived

\* The operator leaves the page: the view is torn down.
Unmount ==
    /\ mounted
    /\ mounted' = FALSE
    /\ lastOp' = "unmount"
    /\ UNCHANGED <<userId, sessionId, sessionData, showRevokeConfirmModal, inflight, log>>
    /\ UnchangedDerived

\* The operator picks "revoke session" in the action menu.
ClickRevoke ==
    /\ MenuRendered
    /\ LET st == Run(onClick, [show |-> showRevokeConfirmModal, log |-> log])
       IN /\ showRevokeConfirmModal' = st.show
          /\ log' = st.log
    /\ lastOp' = "onClick"
    /\ UNCHANGED <<userId, sessionId, mounted, sessionData, inflight>>
    /\ UnchangedDerived

\* The operator cancels in the modal: the modal calls props.onCancel.
Cancel ==
    /\ ModalPresented
    /\ LET st == Run(ModalProps("cancel", userId),
                     [show |-> showRevokeConfirmModal, log |-> log])
       IN /\ showRevokeConfirmModal' = st.show
          /\ log' = st.log
    /\ lastOp' = "onCancel"
    /\ UNCHANGED <<userId, sessionId, mounted, sessionData, inflight>>
    /\ UnchangedDerived

(***************************************************************************)
(* Actions of the modal and the backend.                                   *)
(***************************************************************************)
\* The operator confirms: the modal issues the revoke command for its props.
Confirm ==
    /\ ModalPresented
    /\ ~Executing
    /\ Count("revoke", log) < MaxRevokes
    /\ inflight' = Append(inflight, [userId |-> userId, sessionId |-> sessionId])
    /\ log' = Append(log, Entry(Call("revoke", SessionKey(userId, sessionId)),
                                showRevokeConfirmModal))
    /\ lastOp' = "confirm"
    /\ UNCHANGED <<userId, sessionId, mounted, sessionData, showRevokeConfirmModal>>
    /\ UnchangedDerived

\* A second confirm while a command is in flight does nothing.
ConfirmWhileExecuting ==
    /\ ModalPresented
    /\ Executing
    /\ lastOp' = "confirmIgnored"
    /\ UNCHANGED <<userId, sessionId, mounted, sessionData, showRevokeConfirmModal,
                   inflight, log>>
    /\ UnchangedDerived

\* The backend acknowledges the command: the modal calls the onRevokeCallback
\* it was given when the command was issued.
RevokeSucceeds ==
    /\ Executing
    /\ LET req == Head(inflight)
           acked == Append(log, Entry(Call("ack", SessionKey(req.userId, req.sessionId)),
                                      showRevokeConfirmModal))
           st == Run(ModalProps("revoked", req.userId),
                     [show |-> showRevokeConfirmModal, log |-> acked])
       IN /\ showRevokeConfirmModal' = st.show
          /\ log' = st.log
    /\ inflight' = Tail(inflight)
    /\ lastOp' = "revoked"
    /\ UNCHANGED <<userId, sessionId, mounted, sessionData>>
    /\ UnchangedDerived

\* The backend reports an error for the command.
RevokeFails ==
    /\ Executing
    /\ LET req == Head(inflight)
           failed == Append(log, Entry(Call("error", SessionKey(req.userId, req.sessionId)),
                                       showRevokeConfirmModal))
           st == Run(ModalProps("failed", req.userId),
                     [show |-> showRevokeConfirmModal, log |-> failed])
       IN /\ showRevokeConfirmModal' = st.show
          /\ log' = st.log
    /\ inflight' = Tail(inflight)
    /\ lastOp' = "failed"
    /\ UNCHANGED <<userId, sessionId, mounted, sessionData>>
    /\ UnchangedDerived

InitView ==
    /\ userId \in UserIds
    /\ sessionId \in SessionIds
    /\ mounted = TRUE
    /\ sessionData = NoData
    /\ showRevokeConfirmModal = FALSE
    /\ inflight = <<>>
    /\ log = <<>>
    /\ lastOp = "mount"

Pending == [kind |-> "pending", ms |-> <<>>]
NoPayload == [present |-> FALSE, members |-> <<>>]
NotRendered == [kind |-> "pending", items |-> <<>>]

Init ==
    /\ InitView
    /\ loginTs = <<<<>>, <<>>>>
    /\ signedInAt = <<Pending, Pending>>
    /\ payload = NoPayload
    /\ applications = NotRendered

Next ==
    \/ FetchSession
    \/ ParamChange
    \/ Unmount
    \/ ClickRevoke
    \/ Cancel
    \/ Confirm
    \/ ConfirmWhileExecuting
    \/ RevokeSucceeds
    \/ RevokeFails

Spec == Init /\ [][Next]_vars

(***************************************************************************)
(* formatTimestamp.  A number is kept as the pair <<hi, lo>> that stands   *)
(* for hi * 10^6 + lo with 0 <= lo < 10^6: TLC's integers are 32 bits wide *)
(* and the threshold is 10^12.  Every value below the threshold times 1000 *)
(* is below 10^15 < 2^53, so the double arithmetic of the source is exact. *)
(* An absent value is the empty tuple.                                     *)
(***************************************************************************)
NoValue == <<>>
Zero == <<0, 0>>
Less(a, b) == a[1] < b[1] \/ (a[1] = b[1] /\ a[2] < b[2])
LessEq(a, b) == ~Less(b, a)

\* value * 1000
Times1000(a) == <<a[1] * 1000 + (a[2] * 1000) \div 1000000, (a[2] * 1000) % 1000000>>

\* 1_000_000_000_000
Trillion == <<1000000, 0>>

\* new Date(timestamp).toLocaleString(): the rendering of the instant
\* `timestamp` milliseconds after the epoch in the browser's locale.
LocaleString(timestamp) == [kind |-> "localeString", ms |-> timestamp]

\* '-'
Dash == [kind |-> "placeholder", ms |-> <<>>]

\* Mutants of formatTimestamp: the threshold taken inclusively, and a
\* threshold of 10^9.
formatTimestampInclusive(value) ==
    IF value = NoValue \/ value = Zero
    THEN Dash
    ELSE LET timestamp == IF LessEq(value, Trillion) THEN Times1000(value) ELSE value
         IN LocaleString(timestamp)
formatTimestampBillion(value) ==
    IF value = NoValue \/ value = Zero
    THEN Dash
    ELSE LET timestamp == IF Less(value, <<1000, 0>>) THEN Times1000(value) ELSE value
         IN LocaleString(timestamp)

formatTimestamp(value) ==
    IF value = NoValue \/ value = Zero
    THEN Dash
    ELSE LET timestamp == IF Less(value, Trillion) THEN Times1000(value) ELSE value
         IN LocaleString(timestamp)

\* The timestamps tried: absent, and those within MaxDelta of 0, of 10^9 (the
\* seconds value whose milliseconds reach the threshold), of a present-day
\* instant in seconds, of the threshold 10^12, and of a present-day instant
\* in milliseconds.
SamplePoints == {Zero, <<1000, 0>>, <<1762, 0>>, <<1000000, 0>>, <<1762000, 0>>}
Around(p) ==
    {<<p[1], d>> : d \in 0..MaxDelta}
        \cup (IF p[1] > 0 THEN {<<p[1] - 1, 1000000 - d>> : d \in 1..MaxDelta} ELSE {})
Timestamps == {NoValue} \cup UNION {Around(p) : p \in SamplePoints}

\* const signedInAt = useMemo(() => formatTimestamp(sessionData?.payload.loginTs), ...),
\* for the records of two sessions.
FormatLoginTs ==
    /\ signedInAt = <<Pending, Pending>>
    /\ signedInAt' = <<formatTimestamp(loginTs[1]), formatTimestamp(loginTs[2])>>
    /\ UNCHANGED <<loginTs, payload, applications>>
    /\ UNCHANGED viewVars

InitFormat ==
    /\ InitView
    /\ userId = "u1"
    /\ sessionId = "s1"
    /\ loginTs \in Timestamps \X Timestamps
    /\ signedInAt = <<Pending, Pending>>
    /\ payload = NoPayload
    /\ applications = NotRendered

NextFormat == FormatLoginTs

SpecFormat == InitFormat /\ [][NextFormat]_vars

(***************************************************************************)
(* The `applications` field.  A response body carries the authorization    *)
(* record as its member names in document order; a name may repeat in the  *)
(* text of a body, and the parsed object keeps one property per name, at   *)
(* the place of its first occurrence.  Client ids are not canonical array  *)
(* indices, so the property order of the object is its insertion order.    *)
(***************************************************************************)
AppIds == {"admin-console", "app-a", "app-b", "app-c"}
BuiltInApplicationIds == {"admin-console"}
isBuiltInApplicationId(id) == id \in BuiltInApplicationIds

Payloads ==
    {NoPayload} \cup
    {[present |-> TRUE, members |-> m] :
        m \in UNION {[1..n -> AppIds] : n \in 0..MaxAuthLen}}

\* The own property names of the parsed record, in property order.
RECURSIVE InsertAll(_, _)
InsertAll(members, keys) ==
    IF members = <<>>
    THEN keys
    ELSE InsertAll(Tail(members),
                   IF \E i \in 1..Len(keys) : keys[i] = Head(members)
                   THEN keys
                   ELSE Append(keys, Head(members)))

\* Object.keys(sessionData.payload.authorizations)
ObjectKeys(members) == InsertAll(members, <<>>)

Fragments(ids) ==
    [kind |-> "fragments",
     items |-> [i \in 1..Len(ids) |->
                   [key |-> ids[i], comma |-> i > 1, applicationId |-> ids[i],
                    isLink |-> ~isBuiltInApplicationId(ids[i])]]]

\* '-'
DashText == [kind |-> "placeholder", items |-> <<>>]

\* The mutant of Applications: the empty case rendered as an empty list.
ApplicationsNoPlaceholder(data) ==
    LET authorizedApplicationIds == IF data.present THEN ObjectKeys(data.members) ELSE <<>>
    IN Fragments(authorizedApplicationIds)

\* const applications = useMemo(...)
Applications(data) ==
    LET authorizedApplicationIds == IF data.present THEN ObjectKeys(data.members) ELSE <<>>
    IN IF Len(authorizedApplicationIds) = 0
       THEN DashText
       ELSE Fragments(authorizedApplicationIds)

RenderApplications ==
    /\ applications = NotRendered
    /\ applications' = Applications(payload)
    /\ UNCHANGED <<loginTs, signedInAt, payload>>
    /\ UNCHANGED viewVars

InitApps ==
    /\ InitView
    /\ userId = "u1"
    /\ sessionId = "s1"
    /\ loginTs = <<NoValue, NoValue>>
    /\ signedInAt = <<Pending, Pending>>
    /\ payload \in Payloads
    /\ applications = NotRendered

NextApps == RenderApplications

SpecApps == InitApps /\ [][NextApps]_vars

(***************************************************************************)
(* Properties of the revoke flow.                                          *)
(***************************************************************************)
Last == log[Len(log)]
Prefix(i) == SubSeq(log, 1, i)
\* The user and the session a backend key names.
UserOf(key) == key[3]
SessionOfKey(key) == key[5]

\* C1: the session-list cache entry of a user is invalidated only after a
\* revoke command of that user was issued and acknowledged successful: every
\* mutateGlobal call in the log comes after the acknowledgement of a command
\* of the same user, and at no point have more invalidations been made than
\* commands were acknowledged (none on cancel, none on failure, none before).
C1_InvalidateOnlyAfterAck ==
    \A i \in 1..Len(log) :
        log[i].call = "mutateGlobal" =>
            /\ Count("mutateGlobal", Prefix(i)) <= Count("ack", Prefix(i))
            /\ \E j \in 1..(i - 1) :
                /\ log[j].call = "ack"
                /\ log[i].arg = SessionListKey(UserOf(log[j].arg))
                /\ \E k \in 1..(j - 1) :
                    log[k].call = "revoke" /\ log[k].arg = log[j].arg

C1_Witness ==
    /\ Count("error", log) = 1
    /\ Count("ack", log) = 1
    /\ Count("mutateGlobal", log) = 1
    /\ lastOp = "onCancel"

\* C2: when the backend acknowledges a revoke command issued by the mounted
\* view, the callback first closes the modal, then invalidates the session
\* list of the command's user, then navigates back one step, each exactly
\* once: the acknowledgement is followed in the log by one mutateGlobal of
\* that user's list key made with the modal already closed, then by one
\* navigate(-1), and there are as many of each as acknowledgements.
C2_HappyPathEffects ==
    /\ \A i \in 1..Len(log) :
        (log[i].call = "ack" /\ log[i].mounted) =>
            /\ i + 2 <= Len(log)
            /\ log[i + 1] = [call |-> "mutateGlobal",
                             arg |-> SessionListKey(UserOf(log[i].arg)),
                             modalOpen |-> FALSE, mounted |-> TRUE]
            /\ log[i + 2] = [call |-> "navigate", arg |-> <<"-1">>,
                             modalOpen |-> FALSE, mounted |-> TRUE]
    /\ Count("mutateGlobal", log) = Count("ack", log)
    /\ Count("navigate", log) = Count("ack", log)
    /\ (lastOp = "revoked" /\ mounted) => ~showRevokeConfirmModal

C2_Witness ==
    /\ lastOp = "revoked"
    /\ mounted
    /\ userId = "u1"
    /\ ~showRevokeConfirmModal
    /\ Len(log) = 4
    /\ log[1].call = "revoke" /\ log[1].arg = SessionKey("u1", "s1")
    /\ log[2].call = "ack"
    /\ log[3].call = "mutateGlobal" /\ log[3].arg = SessionListKey("u1")
    /\ log[4].call = "navigate"

C4_NoRevokeWithMissingIds ==
    /\ \A i \in 1..Len(log) :
        log[i].call = "revoke" =>
            Truthy(UserOf(log[i].arg)) /\ Truthy(SessionOfKey(log[i].arg))
    /\ \A i \in 1..Len(inflight) :
        Truthy(inflight[i].userId) /\ Truthy(inflight[i].sessionId)
    /\ lastOp = "confirm" => (Truthy(userId) /\ Truthy(sessionId))

C4_Witness ==
    /\ mounted
    /\ showRevokeConfirmModal
    /\ Truthy(userId)
    /\ ~Truthy(sessionId)
    /\ lastOp = "params"
    /\ log = <<>>

C6_NoEffectsAfterTeardown ==
    \A i \in 1..Len(log) :
        log[i].call \in {"mutateGlobal", "navigate"} => log[i].mounted

\* C7: a cancel in ConfirmPending leads to Idle and changes nothing but the
\* modal's open flag: no backend call, no invalidation, no navigation, the
\* parameters, the session data and the commands in flight as they were, so
\* the action menu is available again exactly as before.
C7_CancelOnlyClosesModal ==
    [][(lastOp' = "onCancel" /\ ConfirmPending) =>
          /\ Idle'
          /\ ~showRevokeConfirmModal'
          /\ UNCHANGED <<userId, sessionId, mounted, sessionData, inflight, log>>
          /\ (MenuRendered' <=> MenuRendered)]_vars

C7_Witness ==
    /\ lastOp = "onCancel"
    /\ Idle
    /\ MenuRendered
    /\ ENABLED ClickRevoke
    /\ log = <<>>

(***************************************************************************)
(* Properties of formatTimestamp.                                          *)
(***************************************************************************)
Formatted == signedInAt[1].kind # "pending"
Present(ts) == ts # NoValue /\ ts # Zero
\* floor(b / 1000)
Div1000(b) == <<b[1] \div 1000, (b[1] % 1000) * 1000 + b[2] \div 1000>>
\* m = 1000 * ts
IsThousandTimes(m, ts) == m[2] % 1000 = 0 /\ Div1000(m) = ts
SameSide(a, b) == Less(a, Trillion) <=> Less(b, Trillion)

\* C8: an absent timestamp and 0 format as "-"; a timestamp ts with
\* 0 < ts < 10^12 formats the instant ts * 1000 ms; a timestamp ts >= 10^12
\* formats the instant ts ms.
C8_Normalization ==
    Formatted =>
        LET ts == loginTs[1]
            out == signedInAt[1]
        IN /\ ~Present(ts) => out = Dash
           /\ (Present(ts) /\ Less(ts, Trillion)) =>
                 (out.kind = "localeString" /\ IsThousandTimes(out.ms, ts))
           /\ (Present(ts) /\ ~Less(ts, Trillion)) =>
                 (out.kind = "localeString" /\ out.ms = ts)

C8_Witness ==
    /\ Formatted
    /\ loginTs = <<<<999999, 999999>>, <<1000000, 0>>>>
    /\ signedInAt[1].ms = <<999999999, 999000>>
    /\ signedInAt[2].ms = <<1000000, 0>>

\* C10 as stated: for present, non-zero timestamps a <= b the instant
\* formatted for a is not later than the instant formatted for b.
C10_Monotonic ==
    Formatted =>
        LET a == loginTs[1]
            b == loginTs[2]
        IN (Present(a) /\ Present(b) /\ LessEq(a, b)) =>
              LessEq(signedInAt[1].ms, signedInAt[2].ms)

\* C10 as amended: for present, non-zero timestamps a <= b the instant of a
\* is not later than the instant of b exactly when a and b lie on the same
\* side of the threshold 10^12 or a * 1000 <= b; for a < 10^12 <= b < a * 1000
\* the order of the instants is reversed.
C10_MonotonicWithinUnit ==
    Formatted =>
        LET a == loginTs[1]
            b == loginTs[2]
        IN (Present(a) /\ Present(b) /\ LessEq(a, b)) =>
              (LessEq(signedInAt[1].ms, signedInAt[2].ms)
                  <=> (SameSide(a, b) \/ LessEq(a, Div1000(b))))

C10_Witness ==
    /\ Formatted
    /\ loginTs = <<<<999, 999999>>, <<1000000, 0>>>>
    /\ signedInAt[1].ms = <<999999, 999000>>
    /\ signedInAt[2].ms = <<1000000, 0>>

(***************************************************************************)
(* Properties of the `applications` field.                                 *)
(***************************************************************************)
Rendered == applications.kind # "pending"
Range(s) == {s[i] : i \in 1..Len(s)}
\* The place of the first occurrence of k in m.
First(m, k) == CHOOSE p \in 1..Len(m) : m[p] = k /\ \A q \in 1..(p - 1) : m[q] # k

=============================================================================
